---- MODULE Spec2Model ----
(***************************************************************************)
(* A model of treematcher.py: TreePattern.find_match, TreePattern.match,   *)
(* the compilation of node labels into controllers (set_controller) and    *)
(* TreePattern.find_extreme_case.                                          *)
(*                                                                         *)
(* Strings are sequences of tokens.  A token is one character of a label   *)
(* ("a", "+", "{", ...) or a fragment of expression text that the code     *)
(* never looks inside (NAME_EQ, QUOTE, DIST, ...).                         *)
(*                                                                         *)
(* A tree is a record [n, parent, children, name, dist]: its nodes are     *)
(* 1..n, node 1 is the root, parent[1] = 0, children[i] is the ordered     *)
(* list of the children of node i.                                         *)
(***************************************************************************)
EXTENDS Integers, Sequences, FiniteSets, TLC

VARIABLES
    tree,        \* the target tree handed to find_match (never mutated)
    pat,         \* structure of the TreePattern: [n, parent, children]
    name,        \* heap: TreePattern object -> its .name attribute
    controller,  \* heap: TreePattern object -> its .controller attribute
    gen,         \* the generator objects created by find_match calls
    call         \* the last direct call of a helper: [op, args, ret]

vars == <<tree, pat, name, controller, gen, call>>

-----------------------------------------------------------------------------
(* Bounds of the model.                                                    *)

\* largest number of nodes of an enumerated target tree
MaxT == 4

\* largest number of nodes of an enumerated pattern tree
MaxP == 2

\* largest number of nodes of a target tree searched by two generators
MaxT2 == 3

\* largest integer value of maxhits that a call passes
MaxHits == 2

\* largest number of names in a list handed to a helper
MaxNames == 2

\* largest number of metacharacters at the end of a label
MaxRun == 2

\* largest number of nodes of a target tree searched for a pair of leaves
MaxT5 == 5

\* largest number of nodes between the parent of a cluster and the node it
\* is searched from
MaxK == 3

-----------------------------------------------------------------------------
(* symbols.py: the metacharacters and the set markers.                     *)

SYMBOL ==
    [is_leaf |-> "$", is_root |-> "^", one_or_more |-> "+",
     zero_or_one |-> "?", zero_or_more |-> "*", not |-> "!",
     defined_number_set_start |-> "{", defined_number_set_end |-> "}",
     node_reference |-> "@"]

SYMBOL_values == {SYMBOL[k] : k \in DOMAIN SYMBOL}

SET == [any_child |-> "[any_child]", children |-> "[children]",
        all_nodes |-> "[all_nodes]"]

\* tokens of expression text
NAME_EQ == ".name == \""
QUOTE == "\""
DIST == ".dist"
CHILD0 == ".children[0]"
AND == " and "
TARGET_NODE == "__target_node"
CORRECT_NODE == "__correct_node"

Letters == {"a", "b", "c", "d", "x", "A", "B", "C", "D", "E", "F"}
Digits == {"0", "1", "2", "3"}

\* An optional integer (the argument maxhits): None, or <<k>> for the integer k
None == <<>>

Some(k) == <<k>>

-----------------------------------------------------------------------------
(* Sequences and strings.                                                  *)

Range(s) == {s[i] : i \in DOMAIN s}

Min(S) == CHOOSE x \in S : \A y \in S : x <= y

RECURSIVE SetToSeq(_)
SetToSeq(S) ==
    IF S = {} THEN <<>>
    ELSE LET m == Min(S) IN <<m>> \o SetToSeq(S \ {m})

RECURSIVE Concat(_)
Concat(ss) == IF ss = <<>> THEN <<>> ELSE Head(ss) \o Concat(Tail(ss))

Remove(s, i) == SubSeq(s, 1, i - 1) \o SubSeq(s, i + 1, Len(s))

\* str.find: the first position of token c in s, Len(s)+1 when absent
RECURSIVE Find(_, _)
Find(s, c) ==
    IF s = <<>> THEN 1
    ELSE IF Head(s) = c THEN 1 ELSE 1 + Find(Tail(s), c)

\* str.replace of one token by another
Replace(s, old, new) == [i \in DOMAIN s |-> IF s[i] = old THEN new ELSE s[i]]

\* str.split(sep)
RECURSIVE Split(_, _)
Split(s, sep) ==
    LET k == Find(s, sep)
    IN IF k > Len(s) THEN <<s>>
       ELSE <<SubSeq(s, 1, k - 1)>> \o Split(SubSeq(s, k + 1, Len(s)), sep)

\* str.strip()
RECURSIVE Strip(_)
Strip(s) ==
    IF s = <<>> THEN s
    ELSE IF Head(s) = " " THEN Strip(Tail(s))
    ELSE IF s[Len(s)] = " " THEN Strip(SubSeq(s, 1, Len(s) - 1))
    ELSE s

\* sep.join(parts)
RECURSIVE Join(_, _)
Join(parts, sep) ==
    IF parts = <<>> THEN <<>>
    ELSE IF Len(parts) = 1 THEN parts[1]
    ELSE parts[1] \o <<sep>> \o Join(Tail(parts), sep)

RECURSIVE SelectNonEmpty(_)
SelectNonEmpty(parts) ==
    IF parts = <<>> THEN <<>>
    ELSE (IF Head(parts) = <<>> THEN <<>> ELSE <<Head(parts)>>)
         \o SelectNonEmpty(Tail(parts))

\* itertools.permutations(s): every ordering of s, in lexicographic order of
\* the positions
RECURSIVE permutations(_)
permutations(s) ==
    IF s = <<>> THEN << <<>> >>
    ELSE Concat([i \in 1..Len(s) |->
                   LET rest == permutations(Remove(s, i))
                   IN [k \in 1..Len(rest) |-> <<s[i]>> \o rest[k]]])

-----------------------------------------------------------------------------
(* ete3 trees.                                                             *)

RECURSIVE AncSelf(_, _)
AncSelf(parent, i) ==
    IF i = 0 THEN {} ELSE {i} \cup AncSelf(parent, parent[i])

\* The parent vectors of the trees of n nodes, nodes numbered in preorder.
ParentVectors(n) ==
    {p \in [1..n -> 0..(n - 1)] :
        /\ p[1] = 0
        /\ \A i \in 2..n : p[i] >= 1 /\ p[i] < i
        /\ \A i \in 3..n : p[i] \in AncSelf(p, i - 1)}

ChildrenOf(n, parent) ==
    [i \in 1..n |-> SetToSeq({j \in 1..n : parent[j] = i})]

\* Every tree of at most maxn nodes with names in Names and dist in Dists.
Trees(maxn, Names, Dists) ==
    UNION {
        {[n |-> n, parent |-> p, children |-> ChildrenOf(n, p),
          name |-> nm, dist |-> ds] :
            p \in ParentVectors(n), nm \in [1..n -> Names],
            ds \in [1..n -> Dists]} :
        n \in 1..maxn}

is_leaf(T, i) == T.children[i] = <<>>

is_root(T, i) == T.parent[i] = 0

\* TreeNode.get_sisters
get_sisters(T, i) ==
    IF T.parent[i] # 0
    THEN SelectSeq(T.children[T.parent[i]], LAMBDA ch : ch # i)
    ELSE <<>>

RECURSIVE preorder(_, _)
preorder(T, i) ==
    <<i>> \o Concat([k \in 1..Len(T.children[i]) |-> preorder(T, T.children[i][k])])

RECURSIVE postorder(_, _)
postorder(T, i) ==
    Concat([k \in 1..Len(T.children[i]) |-> postorder(T, T.children[i][k])]) \o <<i>>

RECURSIVE levelorderFrom(_, _)
levelorderFrom(T, queue) ==
    IF queue = <<>> THEN <<>>
    ELSE <<Head(queue)>> \o levelorderFrom(T, Tail(queue) \o T.children[Head(queue)])

levelorder(T, i) == levelorderFrom(T, <<i>>)

\* TreeNode.traverse(strategy)
traverse(T, i, strategy) ==
    IF strategy = "preorder" THEN preorder(T, i)
    ELSE IF strategy = "postorder" THEN postorder(T, i)
    ELSE levelorder(T, i)

-----------------------------------------------------------------------------
(* Compilation of a node label: TreePattern.set_controller and its helpers. *)

\* int(s) of a string: [ok, v]; not ok is python's ValueError
RECURSIVE DecimalValue(_)
DecimalValue(s) ==
    IF s = <<>> THEN 0
    ELSE 10 * DecimalValue(SubSeq(s, 1, Len(s) - 1))
         + (CHOOSE d \in 0..9 : ToString(d) = s[Len(s)])

int(s) ==
    IF s # <<>> /\ \A i \in DOMAIN s : s[i] \in Digits
    THEN [ok |-> TRUE, v |-> DecimalValue(s)]
    ELSE [ok |-> FALSE, v |-> 0]

\* decode_repeat_symbol that reads a single number n as the bounds 0 to n
decode_repeat_symbol_from_zero(bounds0) ==
    LET n == int(SubSeq(bounds0, 2, Len(bounds0) - 1))
    IN [ok |-> n.ok, low |-> 0, high |-> n.v]

\* TreePattern.decode_repeat_symbol: [ok, low, high]
decode_repeat_symbol(bounds0) ==
    LET bounds == SubSeq(bounds0, 2, Len(bounds0) - 1)
    IN IF "-" \in Range(bounds)
       THEN LET split == Split(bounds, "-")
                low == IF split[1] # <<>> THEN int(split[1])
                       ELSE [ok |-> TRUE, v |-> 0]
                high == IF split[2] # <<>> THEN int(split[2])
                        ELSE [ok |-> TRUE, v |-> -1]
            IN [ok |-> low.ok /\ high.ok, low |-> low.v, high |-> high.v]
       ELSE LET n == int(bounds)
            IN [ok |-> n.ok, low |-> n.v, high |-> n.v]

\* TreePattern.parse_metacharacters: [name, metacharacters]
RECURSIVE parse_metacharacters_loop(_, _)
parse_metacharacters_loop(nm, metacharacters) ==
    IF Len(nm) > 0 /\ nm[Len(nm)] \in SYMBOL_values
    THEN IF SYMBOL.defined_number_set_start \in Range(nm)
         THEN LET start == Find(nm, SYMBOL.defined_number_set_start)
                  stop == IF SYMBOL.defined_number_set_end \in Range(nm)
                          THEN Find(nm, SYMBOL.defined_number_set_end)
                          ELSE 0
              IN parse_metacharacters_loop(
                     SubSeq(nm, 1, start - 1),
                     metacharacters \o <<SubSeq(nm, start, stop)>>)
         ELSE parse_metacharacters_loop(
                  SubSeq(nm, 1, Len(nm) - 1),
                  metacharacters \o << <<nm[Len(nm)]>> >>)
    ELSE [name |-> IF Len(nm) < 1 THEN <<SYMBOL.node_reference>> ELSE nm,
          metacharacters |-> metacharacters]

parse_metacharacters(nm) == parse_metacharacters_loop(nm, <<>>)

\* TreePattern.parse_node_name
isalpha(exp) == \A i \in DOMAIN exp : exp[i] \in Letters

parse_node_name(nm) ==
    LET split == Split(nm, ",")
        expressions ==
            [i \in DOMAIN split |->
                LET exp == Strip(split[i])
                IN IF Len(exp) > 0 /\ isalpha(exp)
                   THEN <<"@", NAME_EQ>> \o exp \o <<QUOTE>>
                   ELSE exp]
    IN Join(SelectNonEmpty(expressions), AND)

\* TreePattern.define_skipping_properties: the keys that the metacharacters
\* set, as a function from the key to its value; [ok, properties]
RECURSIVE define_skipping_properties_loop(_, _)
define_skipping_properties_loop(metacharacters, ctl) ==
    IF metacharacters = <<>> THEN [ok |-> TRUE, properties |-> ctl]
    ELSE
      LET metacharacter == Head(metacharacters)
          c1 == IF metacharacter = <<SYMBOL.is_root>>
                THEN ("root" :> TRUE) @@ ctl ELSE ctl
          c2 == IF metacharacter = <<SYMBOL.is_leaf>>
                THEN ("leaf" :> TRUE) @@ c1 ELSE c1
          c3 == IF metacharacter = <<SYMBOL.not>>
                THEN ("not" :> TRUE) @@ c2 ELSE c2
      IN IF metacharacter = <<SYMBOL.one_or_more>>
         THEN define_skipping_properties_loop(Tail(metacharacters),
                  ("allow_indirect_connection" :> TRUE)
                  @@ ("direct_connection_first" :> FALSE)
                  @@ ("low" :> 1) @@ c3)
         ELSE IF metacharacter = <<SYMBOL.zero_or_more>>
         THEN define_skipping_properties_loop(Tail(metacharacters),
                  ("allow_indirect_connection" :> TRUE)
                  @@ ("direct_connection_first" :> TRUE) @@ c3)
         ELSE IF metacharacter = <<SYMBOL.zero_or_one>>
         THEN define_skipping_properties_loop(Tail(metacharacters),
                  ("direct_connection_first" :> TRUE)
                  @@ ("allow_indirect_connection" :> TRUE)
                  @@ ("high" :> 1) @@ c3)
         ELSE IF SYMBOL.defined_number_set_start \in Range(metacharacter)
         THEN LET bounds == decode_repeat_symbol(metacharacter)
              IN IF ~bounds.ok THEN [ok |-> FALSE, properties |-> c3]
                 ELSE define_skipping_properties_loop(Tail(metacharacters),
                          ("low" :> bounds.low) @@ ("high" :> bounds.high)
                          @@ ("allow_indirect_connection" :> TRUE)
                          @@ ("direct_connection_first" :> (bounds.low = 0))
                          @@ c3)
         ELSE define_skipping_properties_loop(Tail(metacharacters), c3)

\* define_skipping_properties that reads '+' as it reads '*'
define_skipping_properties_plus_as_star(metacharacters) ==
    define_skipping_properties_loop(
        [i \in DOMAIN metacharacters |->
            IF metacharacters[i] = <<SYMBOL.one_or_more>>
            THEN <<SYMBOL.zero_or_more>> ELSE metacharacters[i]],
        <<>>)

\* define_skipping_properties that reads '*' as it reads '+'
define_skipping_properties_star_as_plus(metacharacters) ==
    define_skipping_properties_loop(
        [i \in DOMAIN metacharacters |->
            IF metacharacters[i] = <<SYMBOL.zero_or_more>>
            THEN <<SYMBOL.one_or_more>> ELSE metacharacters[i]],
        <<>>)

define_skipping_properties(metacharacters) ==
    define_skipping_properties_loop(metacharacters, <<>>)

\* the controller that set_controller builds before it reads the metacharacters
DefaultController ==
    [not |-> FALSE, low |-> 0, high |-> -1, skipped |-> 0,
     single_match |-> FALSE, single_match_contstraint |-> <<>>,
     allow_indirect_connection |-> FALSE, direct_connection_first |-> FALSE,
     root |-> FALSE, leaf |-> FALSE]

\* TreePattern.set_controller on a node named nm: [ok, name, controller];
\* not ok is the ValueError of a bound that is no number
set_controller(nm) ==
    LET parsed == IF Len(nm) > 0 THEN parse_metacharacters(nm)
                  ELSE [name |-> nm, metacharacters |-> <<>>]
        properties == define_skipping_properties(parsed.metacharacters)
        updated == properties.properties @@ DefaultController
        ctl == [k \in DOMAIN DefaultController |-> updated[k]]
        nm2 == parse_node_name(parsed.name)
    IN IF ~properties.ok
       THEN [ok |-> FALSE, name |-> parsed.name, controller |-> DefaultController]
       ELSE IF SET.all_nodes \in Range(nm2)
       THEN [ok |-> TRUE, name |-> <<"@">>,
             controller |-> [ctl EXCEPT !.single_match = TRUE,
                                        !.single_match_contstraint = nm2]]
       ELSE [ok |-> TRUE, name |-> nm2, controller |-> ctl]

\* is_in_bounds that does not test the low bound
is_in_bounds_without_low(ctl, bound, test) ==
    IF bound = "high" /\ ctl.high >= 0 THEN test <= ctl.high
    ELSE TRUE

\* TreePattern.is_in_bounds on a node whose controller is ctl
is_in_bounds(ctl, bound, test) ==
    IF bound = "low" THEN test >= ctl.low
    ELSE IF bound = "high" /\ ctl.high >= 0 THEN test <= ctl.high
    ELSE TRUE

-----------------------------------------------------------------------------
(* Evaluation of constraints: python's eval of the expression text.         *)

\* the one-character tokens that may stand inside a string literal
LiteralTokens == Letters \cup Digits \cup SYMBOL_values \cup {"-", " "}

CmpOps == {">", "<", ">=", "<="}

\* a comparison whose '>' also holds for equal values
Compare_not_strict(op, x, y) ==
    IF op = "<" THEN x < y
    ELSE IF op = "<=" THEN x <= y
    ELSE x >= y

Compare(op, x, y) ==
    IF op = ">" THEN x > y
    ELSE IF op = "<" THEN x < y
    ELSE IF op = ">=" THEN x >= y
    ELSE x <= y

\* One clause in a scope that binds some of the node variables (scope is a
\* function from the bound variables to target nodes): [ok, v]; not ok is the
\* exception that eval raises (a name that is not bound, text that is no
\* expression)
EvalClause(c, T, scope) ==
    IF /\ Len(c) >= 3
       /\ c[1] \in DOMAIN scope
       /\ c[2] = NAME_EQ
       /\ c[Len(c)] = QUOTE
       /\ \A i \in 3..(Len(c) - 1) : c[i] \in LiteralTokens
    THEN [ok |-> TRUE, v |-> T.name[scope[c[1]]] = SubSeq(c, 3, Len(c) - 1)]
    ELSE IF /\ Len(c) >= 4
            /\ c[1] \in DOMAIN scope
            /\ c[2] = CHILD0
            /\ c[3] = NAME_EQ
            /\ c[Len(c)] = QUOTE
            /\ \A i \in 4..(Len(c) - 1) : c[i] \in LiteralTokens
    THEN IF T.children[scope[c[1]]] = <<>>
         THEN [ok |-> FALSE, v |-> FALSE]    \* IndexError
         ELSE [ok |-> TRUE,
               v |-> T.name[T.children[scope[c[1]]][1]]
                        = SubSeq(c, 4, Len(c) - 1)]
    ELSE IF /\ Len(c) = 5
            /\ c[1] \in DOMAIN scope
            /\ c[2] = DIST
            /\ c[3] \in CmpOps
            /\ c[4] \in DOMAIN scope
            /\ c[5] = DIST
    THEN [ok |-> TRUE, v |-> Compare(c[3], T.dist[scope[c[1]]], T.dist[scope[c[4]]])]
    ELSE [ok |-> FALSE, v |-> FALSE]

\* eval(constraint, constraint_scope): the clauses joined by "and"
Eval(constraint, T, scope) ==
    LET clauses == Split(constraint, AND)
        rs == [i \in DOMAIN clauses |-> EvalClause(clauses[i], T, scope)]
    IN [ok |-> \A i \in DOMAIN rs : rs[i].ok,
        v |-> \A i \in DOMAIN rs : rs[i].v]

-----------------------------------------------------------------------------
(* The matching engine.  A compiled pattern P is [n, parent, children,     *)
(* name]: the structure and the names of the one-use copy; C maps each of  *)
(* its nodes to its controller, and is what match mutates.                 *)

p_is_leaf(P, self) == P.children[self] = <<>>

\* is_local_match that takes a name that is only '@' for the name of a node
is_local_match_at_is_a_name(P, C, self, T, target_node) ==
    IF P.name[self] = <<>> \/ C[self].allow_indirect_connection
    THEN [ok |-> TRUE, v |-> TRUE]
    ELSE [ok |-> TRUE, v |-> T.name[target_node] = P.name[self]]

\* TreePattern.is_local_match: [ok, v]
is_local_match(P, C, self, T, target_node) ==
    LET scope == (TARGET_NODE :> target_node)
        root_ok == IF C[self].root THEN is_root(T, target_node) ELSE TRUE
        leaf_ok == IF C[self].leaf THEN is_leaf(T, target_node) ELSE TRUE
        nm == P.name[self]
        last == IF nm = <<>> THEN [ok |-> TRUE, v |-> TRUE]
                ELSE IF "@" \in Range(nm)
                THEN IF Len(nm) = 1 THEN [ok |-> TRUE, v |-> TRUE]
                     ELSE Eval(Replace(nm, "@", TARGET_NODE), T, scope)
                ELSE IF C[self].allow_indirect_connection
                THEN [ok |-> TRUE, v |-> TRUE]
                ELSE Eval(<<TARGET_NODE, NAME_EQ>> \o nm \o <<QUOTE>>, T, scope)
    IN [ok |-> last.ok, v |-> root_ok /\ leaf_ok /\ last.v]

\* "self.is_leaf" without a call is a bound method object, which is true
bound_method_is_true == TRUE

\* The first node of the subtree of node, in level order, with at least k
\* children, followed by its sisters (lines 496-507); <<>> when there is none
skip_to_nodes(T, node, k) ==
    LET order == levelorder(T, node)
        found == {i \in DOMAIN order : Len(T.children[order[i]]) >= k}
    IN IF found = {} THEN <<>>
       ELSE LET skip_to_node == order[Min(found)]
            IN <<skip_to_node>> \o get_sisters(T, skip_to_node)

RECURSIVE match(_, _, _, _, _)
RECURSIVE match_while(_, _, _, _, _, _)
RECURSIVE match_permutations(_, _, _, _, _, _, _)
RECURSIVE match_nodes(_, _, _, _, _, _)

\* Lines 535-558: the body of the while loop after the call of match on line
\* 533 has returned r = [status, C, err] without an exception: the next loop
\* state.  w is [i, j, sub_status, current_matched, test_children_properties,
\* continious_matched, sub_status_count, err]; i and j count from 1.
match_while_body(P, T, self, candidate, w, r) ==
    LET child == P.children[self][w.i]
        matched == w.current_matched + (IF r.status THEN 1 ELSE 0)
        st == IF r.status /\ ~is_in_bounds(r.C[self], "low", r.C[self].skipped)
              THEN FALSE ELSE r.status
    IN IF /\ p_is_leaf(P, child)
          /\ (r.C[child].allow_indirect_connection \/ r.C[child].not)
          /\ w.sub_status
       THEN IF w.j + 1 <= Len(candidate)
            THEN [w EXCEPT !.test_children_properties = TRUE,
                           !.current_matched = matched,
                           !.j = w.j + 1]
            ELSE [w EXCEPT !.test_children_properties = TRUE,
                           !.continious_matched =
                               IF matched > 0 THEN @ \o <<matched>> ELSE @,
                           !.current_matched = 0,
                           !.i = w.i + 1,
                           !.j = w.j + 2]
       ELSE IF /\ st = FALSE
               /\ r.C[self].allow_indirect_connection
               /\ Len(T.children[candidate[w.i]]) > 0
            THEN [w EXCEPT !.i = w.i + 1, !.j = w.j + 1]
            ELSE [w EXCEPT !.sub_status = w.sub_status /\ st,
                           !.sub_status_count =
                               IF w.sub_status /\ st THEN @ + 1 ELSE @,
                           !.i = w.i + 1,
                           !.j = w.j + 1]

\* one turn of the while loop, given what match returned
match_while_turn(P, T, self, candidate, w, r) ==
    IF r.err THEN [C |-> r.C, w |-> [w EXCEPT !.err = TRUE]]
    ELSE match_while(P, T, self, candidate, r.C,
                     match_while_body(P, T, self, candidate, w, r))

\* Lines 532-558: the while loop that assigns the candidate (one permutation
\* of the target children) to the children of self: [C, w]
match_while(P, T, self, candidate, C, w) ==
    IF w.i > Len(P.children[self]) THEN [C |-> C, w |-> w]
    ELSE IF w.j > Len(candidate)
    THEN [C |-> C, w |-> [w EXCEPT !.err = TRUE]]    \* IndexError, line 533
    ELSE match_while_turn(P, T, self, candidate, w,
             match(P, T, P.children[self][w.i], candidate[w.j], C))

\* Lines 560-566: what the end of one permutation does to the state of the
\* loop over the permutations.  s is [status, done, test_children_properties,
\* continious_matched, sub_status_count, err]; done records the break.
match_permutations_body(s, w) ==
    LET s1 == [s EXCEPT !.test_children_properties = w.test_children_properties,
                        !.continious_matched = w.continious_matched,
                        !.sub_status_count = w.sub_status_count,
                        !.err = w.err]
    IN IF w.err \/ w.test_children_properties THEN s1
       ELSE IF w.sub_status /\ w.sub_status_count > 0
       THEN [s1 EXCEPT !.status = TRUE, !.done = TRUE]
       ELSE [s1 EXCEPT !.status = FALSE]

match_permutations_turn(P, T, self, perms, k, s, r) ==
    match_permutations(P, T, self, perms, k + 1, r.C,
                       match_permutations_body(s, r.w))

\* Lines 526-566: the loop over the permutations of the children of one
\* target node: [C, s]
match_permutations(P, T, self, perms, k, C, s) ==
    IF k > Len(perms) \/ s.done \/ s.err THEN [C |-> C, s |-> s]
    ELSE match_permutations_turn(P, T, self, perms, k, s,
             match_while(P, T, self, perms[k], C,
                 [i |-> 1, j |-> 1, sub_status |-> TRUE, current_matched |-> 0,
                  test_children_properties |-> s.test_children_properties,
                  continious_matched |-> s.continious_matched,
                  sub_status_count |-> s.sub_status_count,
                  err |-> FALSE]))

\* Lines 567-586: the decision of the counting mode, from the counts that
\* the permutations left
children_properties(P, C, self, continious_matched) ==
    LET last == P.children[self][Len(P.children[self])]
        counted == \E m \in DOMAIN continious_matched :
                      /\ is_in_bounds(C[last], "low", continious_matched[m])
                      /\ is_in_bounds(C[last], "high", continious_matched[m])
        sub_sub_status ==
            IF Len(continious_matched) > 0 THEN counted
            ELSE IF C[last].direct_connection_first THEN TRUE
            ELSE FALSE
    IN IF C[last].not THEN ~sub_sub_status ELSE sub_sub_status

\* Lines 567-589 for one anchor, given what the loop over its permutations
\* returned, then the rest of the anchors
match_nodes_turn(P, T, self, nodes, r) ==
    LET sub_status == children_properties(P, r.C, self, r.s.continious_matched)
        status == IF r.s.test_children_properties THEN sub_status
                  ELSE r.s.status
        sub_status_count == IF r.s.test_children_properties /\ sub_status
                            THEN r.s.sub_status_count + 1
                            ELSE r.s.sub_status_count
    IN IF r.s.err THEN [status |-> FALSE, C |-> r.C, err |-> TRUE]
       ELSE IF status /\ sub_status_count > 0
       THEN [status |-> status, C |-> r.C, err |-> FALSE]
       ELSE match_nodes(P, T, self, Tail(nodes), r.C, status)

\* Lines 521-589: the loop over the anchors: [status, C, err]
match_nodes(P, T, self, nodes, C, status) ==
    IF nodes = <<>> THEN [status |-> status, C |-> C, err |-> FALSE]
    ELSE IF Len(T.children[Head(nodes)]) >= Len(P.children[self])
    THEN match_nodes_turn(P, T, self, nodes,
             match_permutations(P, T, self,
                 permutations(T.children[Head(nodes)]), 1, C,
                 [status |-> status, done |-> FALSE,
                  test_children_properties |-> FALSE,
                  continious_matched |-> <<>>,
                  sub_status_count |-> 0, err |-> FALSE]))
    ELSE match_nodes(P, T, self, Tail(nodes), C, status)

\* Lines 591-593: the exit of match, r being [status, C, err] so far
match_exit(self, r) ==
    IF r.err THEN r
    ELSE IF ~r.status /\ r.C[self].allow_indirect_connection
    THEN [r EXCEPT !.C[self].skipped = @ - 1]
    ELSE r

\* Lines 489-589: the children of self against those of node
match_children(P, T, self, node, C, status) ==
    LET fewer == Len(T.children[node]) < Len(P.children[self])
        skipped_to == IF fewer /\ C[self].allow_indirect_connection
                      THEN skip_to_nodes(T, node, Len(P.children[self]))
                      ELSE <<>>
    IN IF status /\ P.children[self] # <<>>
       THEN match_nodes(P, T, self,
                        IF skipped_to = <<>> THEN <<node>> ELSE skipped_to,
                        C,
                        IF fewer /\ skipped_to = <<>> THEN FALSE ELSE status)
       ELSE [status |-> status, C |-> C, err |-> FALSE]

\* Lines 473-593, local being what is_local_match returned on line 471
match_local(P, T, self, node, C, local) ==
    LET status == IF ~bound_method_is_true /\ C[self].not
                  THEN ~local.v ELSE local.v
        up == P.parent[self]
        skip == /\ ~status
                /\ ~(C[self].allow_indirect_connection /\ p_is_leaf(P, self))
                /\ up # 0
                /\ C[up].allow_indirect_connection
                /\ is_in_bounds(C[up], "high", C[up].skipped + 1)
    IN IF ~local.ok THEN [status |-> FALSE, C |-> C, err |-> TRUE]
       ELSE IF skip
       THEN match_exit(up,
                match_children(P, T, up, node,
                               [C EXCEPT ![up].skipped = @ + 1], TRUE))
       ELSE IF /\ status
               /\ C[self].allow_indirect_connection
               /\ C[self].skipped = 0
       THEN match_exit(self,
                match_children(P, T, self, node,
                               [C EXCEPT ![self].skipped = @ + 1], status))
       ELSE match_exit(self, match_children(P, T, self, node, C, status))

\* Lines 468-471
match_self(P, T, self, node, C) ==
    match_local(P, T, self, node, C, is_local_match(P, C, self, T, node))

\* TreePattern.match(self, node): [status, C, err]; err is an exception that
\* leaves match (it is caught nowhere)
match(P, T, self, node, C) ==
    IF C[self].direct_connection_first /\ ~p_is_leaf(P, self)
    THEN match_self(P, T, P.children[self][1], node, C)
    ELSE match_self(P, T, self, node, C)

-----------------------------------------------------------------------------
(* TreePattern.find_extreme_case.                                          *)

\* the constraint with the two reserved names bound (lines 284-285)
extreme_constraint(constraint) ==
    Replace(Replace(constraint, "@", TARGET_NODE), SET.all_nodes, CORRECT_NODE)

RECURSIVE find_extreme_case_loop(_, _, _, _, _)

\* Lines 287-312, st being what eval returned
find_extreme_case_turn(constraint, T, match_list, k, correct_node, st) ==
    IF ~st.ok THEN [ok |-> FALSE, node |-> correct_node]
    ELSE find_extreme_case_loop(constraint, T, match_list, k + 1,
             IF st.v THEN match_list[k] ELSE correct_node)

\* Lines 276-312: the fold over match_list[k..]: [ok, node]
find_extreme_case_loop(constraint, T, match_list, k, correct_node) ==
    IF k > Len(match_list) THEN [ok |-> TRUE, node |-> correct_node]
    ELSE find_extreme_case_turn(constraint, T, match_list, k, correct_node,
             Eval(extreme_constraint(constraint), T,
                  (TARGET_NODE :> match_list[k])
                  @@ (CORRECT_NODE :> correct_node)))

\* Lines 264-267: the last node of the pattern, in level order, that is a
\* single match
single_match_node(P, C) ==
    LET order == levelorder(P, 1)
        single == {i \in DOMAIN order : C[order[i]].single_match}
    IN order[CHOOSE i \in single : \A k \in single : k <= i]

\* TreePattern.find_extreme_case: [ok, node]; not ok is an exception (the
\* IndexError of match_list[0] on an empty list, or a failed evaluation)
find_extreme_case(P, C, T, match_list) ==
    IF match_list = <<>> THEN [ok |-> FALSE, node |-> 0]
    ELSE find_extreme_case_loop(
             C[single_match_node(P, C)].single_match_contstraint, T,
             match_list, 1, match_list[1])

-----------------------------------------------------------------------------
(* TreePattern.find_match: a generator.  The heap holds the TreePattern    *)
(* objects: those of the pattern itself are 1..pat.n, those of a copy are  *)
(* base + 1 .. base + pat.n.                                               *)

Gens == {1, 2}

Traversals == {"preorder", "levelorder", "postorder"}

MaxHitsValues == {Some(k) : k \in 0..MaxHits} \cup {None}

NoGen ==
    [pc |-> "none", maxhits |-> None, traversal |-> "preorder", base |-> 0,
     single_match_pattern |-> FALSE, matched_nodes |-> <<>>, pos |-> 0,
     num_hits |-> 0, results |-> <<>>]

\* a copy that is the pattern itself
shallow_copy(p, g) == 0

\* copy.deepcopy(self), self being the pattern p, in generator g: the base of
\* the fresh objects
deepcopy(p, g) == g * p.n

\* the heap of names after the copy of the n objects of the pattern to base
CopyNames(nm, n, base) ==
    [o \in {base + i : i \in 1..n} |-> nm[o - base]] @@ nm

RECURSIVE set_controllers(_, _, _, _)

\* one call of set_controller on object o, sc being what it returned
set_controllers_turn(order, k, base, h, o, sc) ==
    set_controllers(order, k + 1, base,
        [name |-> (o :> sc.name) @@ h.name,
         controller |-> IF sc.ok THEN (o :> sc.controller) @@ h.controller
                        ELSE h.controller,
         ok |-> sc.ok,
         single |-> h.single \/ (sc.ok /\ sc.controller.single_match)])

\* Lines 692-693: set_controller on every node of the copy, in the order of
\* traverse(); h is the heap [name, controller, ok, single]
set_controllers(order, k, base, h) ==
    IF k > Len(order) \/ ~h.ok THEN h
    ELSE set_controllers_turn(order, k, base, h, base + order[k],
                              set_controller(h.name[base + order[k]]))

\* the compiled pattern of the copy at base, read from the heap
PatternAt(p, base, nm) ==
    [n |-> p.n, parent |-> p.parent, children |-> p.children,
     name |-> [i \in 1..p.n |-> nm[base + i]]]

ControllersAt(p, base, ctl) == [i \in 1..p.n |-> ctl[base + i]]

\* the heap of controllers with those of the copy at base replaced by C
StoreControllers(ctl, base, C) ==
    [o \in DOMAIN ctl |->
        IF o - base \in DOMAIN C THEN C[o - base] ELSE ctl[o]]

\* where a generator stands after a step: the fields of its frame that the
\* step sets, the controllers C of its copy and what it yielded
Frame(pc, pos, num_hits, C, yielded, matched_nodes) ==
    [pc |-> pc, pos |-> pos, num_hits |-> num_hits, C |-> C,
     yielded |-> yielded, matched_nodes |-> matched_nodes]

RECURSIVE search_loop(_, _, _, _, _, _, _)

\* Lines 706-710 for the node at position pos, r being what match returned
search_turn(P, T, order, pos, num_hits, maxhits, r) ==
    IF r.err THEN Frame("error", pos, num_hits, r.C, <<>>, <<>>)
    ELSE IF r.status
    THEN Frame("yielded", pos, num_hits + 1, r.C, <<order[pos]>>, <<>>)
    ELSE IF maxhits # None /\ num_hits >= maxhits[1]
    THEN Frame("done", pos, num_hits, r.C, <<>>, <<>>)
    ELSE search_loop(P, T, order, pos + 1, num_hits, maxhits, r.C)

\* Lines 705-710, from the node at position pos of the traversal on, up to
\* the next yield, the end or an exception
search_loop(P, T, order, pos, num_hits, maxhits, C) ==
    IF pos > Len(order) THEN Frame("done", pos, num_hits, C, <<>>, <<>>)
    ELSE search_turn(P, T, order, pos, num_hits, maxhits,
                     match(P, T, 1, order[pos], C))

\* lines 709-710 left out: the loop goes on after every yield
search_resume_unbounded(P, T, order, pos, num_hits, maxhits, C) ==
    search_loop(P, T, order, pos + 1, num_hits, maxhits, C)

\* the test of lines 709-710 with '>' for '>='
search_resume_one_more(P, T, order, pos, num_hits, maxhits, C) ==
    IF maxhits # None /\ num_hits > maxhits[1]
    THEN Frame("done", pos, num_hits, C, <<>>, <<>>)
    ELSE search_loop(P, T, order, pos + 1, num_hits, maxhits, C)

\* Lines 709-710 after the yield of line 708, then the loop again
search_resume(P, T, order, pos, num_hits, maxhits, C) ==
    IF maxhits # None /\ num_hits >= maxhits[1]
    THEN Frame("done", pos, num_hits, C, <<>>, <<>>)
    ELSE search_loop(P, T, order, pos + 1, num_hits, maxhits, C)

RECURSIVE collect_matches(_, _, _, _, _, _)

collect_turn(P, T, order, pos, matched_nodes, r) ==
    IF r.err THEN [C |-> r.C, matched_nodes |-> matched_nodes, err |-> TRUE]
    ELSE collect_matches(P, T, order, pos + 1, r.C,
             IF r.status THEN matched_nodes \o <<order[pos]>>
             ELSE matched_nodes)

\* Lines 698-701: [C, matched_nodes, err]
collect_matches(P, T, order, pos, C, matched_nodes) ==
    IF pos > Len(order)
    THEN [C |-> C, matched_nodes |-> matched_nodes, err |-> FALSE]
    ELSE collect_turn(P, T, order, pos, matched_nodes,
                      match(P, T, 1, order[pos], C))

\* Line 702, m being what the loop of lines 699-701 left and best what
\* find_extreme_case returned
extreme_yield(order, m, best) ==
    IF ~best.ok THEN Frame("error", 0, 0, m.C, <<>>, m.matched_nodes)
    ELSE Frame("yielded_extreme", Len(order), 0, m.C, <<best.node>>,
               m.matched_nodes)

extreme_select(P, T, order, m) ==
    IF m.err THEN Frame("error", 0, 0, m.C, <<>>, m.matched_nodes)
    ELSE extreme_yield(order, m, find_extreme_case(P, m.C, T, m.matched_nodes))

\* Lines 697-702: the search of a single-match pattern, up to its yield
search_extreme(P, T, order, C) ==
    extreme_select(P, T, order, collect_matches(P, T, order, 1, C, <<>>))

\* Lines 697-710 on the compiled heap h = [name, controller, ok, single]
search_start(p, T, base, h, maxhits, traversal) ==
    IF h.single
    THEN search_extreme(PatternAt(p, base, h.name), T,
                        traverse(T, 1, traversal),
                        ControllersAt(p, base, h.controller))
    ELSE search_loop(PatternAt(p, base, h.name), T,
                     traverse(T, 1, traversal), 1, 0, maxhits,
                     ControllersAt(p, base, h.controller))

\* list(pattern.find_match(T, maxhits, target_traversal=traversal)) for a
\* pattern p = [n, parent, children, name] fresh from its constructor:
\* [results, err], results being what was yielded before the end or the
\* exception
RECURSIVE drain(_, _, _, _, _, _)
drain(P, T, order, maxhits, r, results) ==
    IF r.pc = "yielded"
    THEN drain(P, T, order, maxhits,
               search_resume(P, T, order, r.pos, r.num_hits, maxhits, r.C),
               results \o r.yielded)
    ELSE [results |-> results \o r.yielded, err |-> r.pc = "error"]

list_compiled(p, T, maxhits, traversal, h) ==
    IF ~h.ok THEN [results |-> <<>>, err |-> TRUE]
    ELSE drain(PatternAt(p, 0, h.name), T, traverse(T, 1, traversal), maxhits,
               search_start(p, T, 0, h, maxhits, traversal), <<>>)

list_find_match(p, T, maxhits, traversal) ==
    list_compiled(p, T, maxhits, traversal,
        set_controllers(levelorder(p, 1), 1, 0,
            [name |-> p.name, controller |-> <<>>, ok |-> TRUE,
             single |-> FALSE]))

-----------------------------------------------------------------------------
(* The actions.                                                            *)

\* no helper has been called directly
NoCall == [op |-> "none", args |-> <<>>, ret |-> <<>>]

\* pattern.find_match(tree, maxhits, target_traversal=traversal): creates the
\* generator; no line of the body runs before the first next()
FindMatch(g, maxhits, traversal) ==
    /\ gen[g].pc = "none"
    /\ gen' = [gen EXCEPT ![g] = [NoGen EXCEPT !.pc = "created",
                                               !.maxhits = maxhits,
                                               !.traversal = traversal]]
    /\ UNCHANGED <<tree, pat, name, controller, call>>

\* the generator g after a step that left it at frame r
Suspend(g, r) ==
    gen' = [gen EXCEPT ![g].pc = r.pc,
                       ![g].pos = r.pos,
                       ![g].num_hits = r.num_hits,
                       ![g].matched_nodes = r.matched_nodes,
                       ![g].results = @ \o r.yielded]

\* Lines 697-710 of a generator that starts, h being the heap that lines
\* 682-693 left
Started(g, base, h, r) ==
    /\ name' = h.name
    /\ controller' = StoreControllers(h.controller, base, r.C)
    /\ gen' = [gen EXCEPT ![g].pc = r.pc,
                          ![g].base = base,
                          ![g].single_match_pattern = h.single,
                          ![g].pos = r.pos,
                          ![g].num_hits = r.num_hits,
                          ![g].matched_nodes = r.matched_nodes,
                          ![g].results = @ \o r.yielded]

Compiled(g, base, h) ==
    IF h.ok
    THEN Started(g, base, h,
                 search_start(pat, tree, base, h, gen[g].maxhits,
                              gen[g].traversal))
    ELSE /\ name' = h.name
         /\ controller' = h.controller
         /\ gen' = [gen EXCEPT ![g].pc = "error", ![g].base = base]

Copied(g, base) ==
    Compiled(g, base,
        set_controllers(levelorder(pat, 1), 1, base,
            [name |-> CopyNames(name, pat.n, base), controller |-> controller,
             ok |-> TRUE, single |-> FALSE]))

\* next(generator) on a generator that has not started: lines 682-693, then
\* the search up to the first yield, the end or an exception
Start(g) ==
    /\ gen[g].pc = "created"
    /\ Copied(g, deepcopy(pat, g))
    /\ UNCHANGED <<tree, pat, call>>

Resumed(g, r) ==
    /\ controller' = StoreControllers(controller, gen[g].base, r.C)
    /\ Suspend(g, r)

\* next(generator) on a generator suspended at a yield
Resume(g) ==
    /\ gen[g].pc \in {"yielded", "yielded_extreme"}
    /\ IF gen[g].pc = "yielded_extreme"
       THEN Resumed(g, Frame("done", gen[g].pos, gen[g].num_hits,
                             ControllersAt(pat, gen[g].base, controller),
                             <<>>, gen[g].matched_nodes))
       ELSE Resumed(g, search_resume(PatternAt(pat, gen[g].base, name), tree,
                                     traverse(tree, 1, gen[g].traversal),
                                     gen[g].pos, gen[g].num_hits,
                                     gen[g].maxhits,
                                     ControllersAt(pat, gen[g].base, controller)))
    /\ UNCHANGED <<tree, pat, name, call>>

-----------------------------------------------------------------------------
(* Specifications.  Each one fixes the patterns and the target trees that  *)
(* the program is run on, and what the caller passes to find_match.        *)

\* a pattern tree of the given shape and labels, as the constructor leaves it
InitWith(patterns, trees) ==
    /\ tree \in trees
    /\ \E p \in patterns :
          /\ pat = [n |-> p.n, parent |-> p.parent, children |-> p.children]
          /\ name = [o \in 1..p.n |-> p.name[o]]
    /\ controller = <<>>
    /\ gen = [g \in Gens |-> NoGen]
    /\ call = NoCall

NextWith(gs, maxhits, traversals) ==
    \/ \E g \in gs, mh \in maxhits, tr \in traversals : FindMatch(g, mh, tr)
    \/ \E g \in gs : Start(g)
    \/ \E g \in gs : Resume(g)

\* the pattern tree whose nodes are a chain: labels[1] is the root, each
\* following label the single child of the one before it ("((c)+)a" is
\* ChainPattern(<< <<"a">>, <<"+">>, <<"c">> >>))
ChainPattern(labels) ==
    LET n == Len(labels)
        parent == [i \in 1..n |-> i - 1]
    IN [n |-> n, parent |-> parent, children |-> ChildrenOf(n, parent),
        name |-> labels]

\* properties of target trees that the claims speak of
Named(T, i, ch) == T.name[i] = <<ch>>

IsAncestor(T, a, i) == a \in AncSelf(T.parent, T.parent[i])

RECURSIVE Depth(_, _)
Depth(T, i) == IF T.parent[i] = 0 THEN 0 ELSE 1 + Depth(T, T.parent[i])

\* node c lies below node a with exactly k nodes between them
Separated(T, a, c, k) ==
    IsAncestor(T, a, c) /\ Depth(T, c) - Depth(T, a) = k + 1

Finished(g) == gen[g].pc \in {"done", "error"}

\* the pattern as its constructor left it, read from the heap now
Original == PatternAt(pat, 0, name)

IsPattern(p) ==
    /\ pat.n = p.n
    /\ pat.parent = p.parent
    /\ \A i \in 1..p.n : name[i] = p.name[i]

\* every pattern tree of at most MaxP nodes whose names carry no
\* metacharacter
PlainPatterns ==
    {[n |-> t.n, parent |-> t.parent, children |-> t.children,
      name |-> t.name] : t \in Trees(MaxP, {<<"a">>, <<"c">>}, {1})}

-----------------------------------------------------------------------------
(* The one-or-more connector: the pattern ((c)+)a.                         *)

OneOrMorePattern == ChainPattern(<< <<"a">>, <<"+">>, <<"c">> >>)

InitOneOrMore ==
    InitWith({OneOrMorePattern},
             Trees(MaxT, {<<"a">>, <<"c">>, <<"x">>}, {1}))

NextOneOrMore == NextWith({1}, {Some(1), None}, Traversals)

SpecOneOrMore == InitOneOrMore /\ [][NextOneOrMore]_vars

\* every c below an a is a child of that a
EveryCIsDirect(T) ==
    \A a, c \in 1..T.n :
        Named(T, a, "a") /\ Named(T, c, "c") /\ IsAncestor(T, a, c)
            => T.parent[c] = a

\* some c lies below an a with at least one node between them
SomeCIsSeparated(T) ==
    \E a, c \in 1..T.n :
        /\ Named(T, a, "a") /\ Named(T, c, "c")
        /\ IsAncestor(T, a, c) /\ T.parent[c] # a

\* C1: with the query ((c)+)a, find_match reports nothing on a target in
\* which every c below an a is a child of that a, and reports at least one
\* match (and raises nothing) on a target in which some c lies below an a
\* with one or more nodes between them.
OneOrMoreConnector ==
    \A g \in Gens :
        /\ gen[g].pc # "error"
        /\ EveryCIsDirect(tree) => gen[g].results = <<>>
        /\ Finished(g) /\ SomeCIsSeparated(tree) => gen[g].results # <<>>

\* a finished search that found the a of a target in which the c is two
\* nodes away from it
OneOrMoreWitness ==
    \E g \in Gens, a, c \in 1..tree.n :
        /\ Finished(g)
        /\ Named(tree, a, "a") /\ Named(tree, c, "c")
        /\ Separated(tree, a, c, 2)
        /\ \A i \in 1..tree.n : i \notin {a, c} => Named(tree, i, "x")
        /\ gen[g].results = <<a>>

-----------------------------------------------------------------------------
(* The zero-or-more connector: a pattern whose connector node is '*'.      *)

ZeroOrMorePattern == ChainPattern(<< <<"a">>, <<"*">>, <<"c">> >>)

ZeroOrMoreChildPattern ==
    ChainPattern(<< <<"a">>, <<"*">>, <<"c">>, <<"d">> >>)

InitZeroOrMore ==
    InitWith({ZeroOrMorePattern, ZeroOrMoreChildPattern},
             Trees(MaxT, {<<"a">>, <<"c">>, <<"d">>}, {1}))

NextZeroOrMore == NextWith({1}, {Some(1), None}, Traversals)

SpecZeroOrMore == InitZeroOrMore /\ [][NextZeroOrMore]_vars

\* some c lies below an a, as its child or further down
SomeCBelowA(T) ==
    \E a, c \in 1..T.n :
        Named(T, a, "a") /\ Named(T, c, "c") /\ IsAncestor(T, a, c)

SomeCHasChildD(T) ==
    \E c, d \in 1..T.n :
        Named(T, c, "c") /\ Named(T, d, "d") /\ T.parent[d] = c

\* C2: with the query ((c)*)a, find_match reports at least one match on a
\* target in which some c lies below an a, as its child or with any number
\* of nodes between them; with the query (((d)c)*)a it reports nothing on a
\* target in which no c has a child d.  Neither search raises.
ZeroOrMoreConnector ==
    \A g \in Gens :
        /\ gen[g].pc # "error"
        /\ IsPattern(ZeroOrMorePattern) /\ Finished(g) /\ SomeCBelowA(tree)
              => gen[g].results # <<>>
        /\ IsPattern(ZeroOrMoreChildPattern) /\ ~SomeCHasChildD(tree)
              => gen[g].results = <<>>

\* a finished search for ((c)*)a that found the a of a target whose c is a
\* child of that a and of no other a
ZeroOrMoreWitness ==
    \E g \in Gens, a, c \in 1..tree.n :
        /\ IsPattern(ZeroOrMorePattern)
        /\ Finished(g)
        /\ Named(tree, a, "a") /\ Named(tree, c, "c")
        /\ tree.parent[c] = a
        /\ ~SomeCIsSeparated(tree)
        /\ a \in Range(gen[g].results)

-----------------------------------------------------------------------------
(* A reference to any node as connector: the pattern ((c)@)a.              *)

AnyNodePattern == ChainPattern(<< <<"a">>, <<"@">>, <<"c">> >>)

InitAnyNode ==
    InitWith({AnyNodePattern}, Trees(MaxT, {<<"a">>, <<"c">>, <<"x">>}, {1}))

NextAnyNode == NextWith({1}, {Some(1), None}, Traversals)

SpecAnyNode == InitAnyNode /\ [][NextAnyNode]_vars

\* some a has a child that has a child c
SomeCIsGrandchild(T) ==
    \E a, c \in 1..T.n :
        Named(T, a, "a") /\ Named(T, c, "c") /\ Separated(T, a, c, 1)

\* C3: with the query ((c)@)a, find_match reports a match if and only if
\* some a of the target has a child that has a child c: a search reports
\* nothing on any other target, and a finished search on such a target has
\* reported at least one node.  The search raises nothing.
AnyNodeConnector ==
    \A g \in Gens :
        /\ gen[g].pc # "error"
        /\ gen[g].results # <<>> => SomeCIsGrandchild(tree)
        /\ Finished(g) /\ SomeCIsGrandchild(tree) => gen[g].results # <<>>

\* a finished search that reported nothing on a target whose only c lies two
\* nodes away from its only a
AnyNodeWitness ==
    \E g \in Gens, a, c \in 1..tree.n :
        /\ Finished(g)
        /\ Named(tree, a, "a") /\ Named(tree, c, "c")
        /\ Separated(tree, a, c, 2)
        /\ \A i \in 1..tree.n : i \notin {a, c} => Named(tree, i, "x")
        /\ gen[g].results = <<>>

-----------------------------------------------------------------------------
(* Ordinary patterns: plain ones and ones with a connector.                *)

ConnectorPatterns ==
    {OneOrMorePattern, ZeroOrMorePattern, AnyNodePattern,
     ChainPattern(<< <<"a">>, <<"c", "+">>, <<"a">> >>)}

OrdinaryPatterns == PlainPatterns \cup ConnectorPatterns

TargetTrees == Trees(MaxT, {<<"a">>, <<"c">>}, {1})

InitOrdinary == InitWith(OrdinaryPatterns, TargetTrees)

NextOrdinary == NextWith({1}, MaxHitsValues, Traversals)

SpecOrdinary == InitOrdinary /\ [][NextOrdinary]_vars

\* the subtree of T at node is the pattern p at i, up to the order of the
\* children: the names are equal and the children correspond one to one
RECURSIVE ExactIso(_, _, _, _)
ExactIso(p, i, T, node) ==
    /\ T.name[node] = p.name[i]
    /\ Len(T.children[node]) = Len(p.children[i])
    /\ \E perm \in Range(permutations(T.children[node])) :
          \A k \in DOMAIN perm : ExactIso(p, p.children[i][k], T, perm[k])

\* C4: for a pattern without metacharacters, a search for every match
\* reports a target node exactly when the subtree at that node is
\* isomorphic to the pattern, with no target child left unmatched.
PlainIsExactIsomorphism ==
    \A g \in Gens :
        /\ Finished(g)
        /\ gen[g].maxhits = None
        /\ \E p \in PlainPatterns : IsPattern(p)
        => \A node \in 1..tree.n :
              node \in Range(gen[g].results)
                  <=> ExactIso(Original, 1, tree, node)

\* C5: for a number maxhits, find_match produces at most maxhits nodes.
MaxHitsBoundsResults ==
    \A g \in Gens :
        gen[g].maxhits # None => Len(gen[g].results) <= gen[g].maxhits[1]

\* the unordered tree at node i of T1 is the unordered tree at node j of T2
RECURSIVE SameUpToOrder(_, _, _, _)
SameUpToOrder(T1, i, T2, j) ==
    /\ T1.name[i] = T2.name[j]
    /\ T1.dist[i] = T2.dist[j]
    /\ Len(T1.children[i]) = Len(T2.children[j])
    /\ \E perm \in Range(permutations(T2.children[j])) :
          \A k \in DOMAIN perm :
              SameUpToOrder(T1, T1.children[i][k], T2, perm[k])

\* C10: a search for every match reports the root of the target exactly
\* when the same search reports the root of any target that differs from it
\* only in the order of the children of its nodes.
ChildOrderIndependent ==
    \A g \in Gens :
        gen[g].pc = "done" /\ gen[g].maxhits = None
        => \A T2 \in {t \in TargetTrees :
                         t.n = tree.n /\ SameUpToOrder(tree, 1, t, 1)} :
              1 \in Range(gen[g].results)
                  <=> 1 \in Range(list_find_match(Original, T2, None,
                                                  gen[g].traversal).results)

-----------------------------------------------------------------------------
(* Two searches with one pattern.                                          *)

SmallTrees == Trees(MaxT2, {<<"a">>, <<"c">>}, {1})

InitTwoSearches == InitWith(OrdinaryPatterns, SmallTrees)

NextTwoSearches == NextWith(Gens, {Some(1), None}, {"preorder", "postorder"})

SpecTwoSearches == InitTwoSearches /\ [][NextTwoSearches]_vars

IsPrefix(s, t) == Len(s) <= Len(t) /\ SubSeq(t, 1, Len(s)) = s

\* C6: a search with maxhits = 1 produces at most one node, and what it has
\* produced is a prefix of what a finished search with maxhits = None and
\* the same pattern, target and traversal produced.
MaxHitsOneIsPrefix ==
    \A g, h \in Gens :
        /\ gen[g].maxhits = Some(1) => Len(gen[g].results) <= 1
        /\ (/\ gen[g].maxhits = Some(1)
            /\ gen[h].maxhits = None
            /\ gen[g].traversal = gen[h].traversal
            /\ gen[h].pc = "done")
           => IsPrefix(gen[g].results, gen[h].results)

\* two finished searches of one traversal, the one with maxhits = 1 having
\* produced the first of the several nodes of the other
MaxHitsOneWitness ==
    \E g, h \in Gens :
        /\ gen[g].maxhits = Some(1) /\ gen[g].pc = "done"
        /\ gen[h].maxhits = None /\ gen[h].pc = "done"
        /\ gen[g].traversal = gen[h].traversal
        /\ Len(gen[h].results) >= 2
        /\ gen[g].results = <<gen[h].results[1]>>

\* the objects of the one-use copy of generator g
CopyOf(g) == {gen[g].base + i : i \in 1..pat.n}

Originals == 1..pat.n

SameArguments(g, h) ==
    /\ gen[g].maxhits = gen[h].maxhits
    /\ gen[g].traversal = gen[h].traversal

\* C9: no step of any search changes the structure or a name of the
\* original pattern; its nodes never get a controller (the skip counters
\* live in controllers); a search that has not run has no controllers yet;
\* and two finished searches with the same maxhits and traversal have
\* produced the same sequence and ended the same way.
OriginalUntouched ==
    /\ [][pat' = pat /\ \A o \in Originals : name'[o] = name[o]]_vars
    /\ [](\A o \in Originals : o \notin DOMAIN controller)
    /\ [](\A g \in Gens :
             gen[g].pc \in {"none", "created"}
                 => \A o \in DOMAIN controller :
                       o \notin {g * pat.n + i : i \in 1..pat.n})
    /\ [](\A g, h \in Gens :
             Finished(g) /\ Finished(h) /\ SameArguments(g, h)
                 => /\ gen[g].results = gen[h].results
                    /\ gen[g].pc = gen[h].pc)

\* two finished searches with the same arguments for a pattern with a
\* connector, one of whose copies holds a skip counter that is not 0
OriginalUntouchedWitness ==
    /\ \E p \in ConnectorPatterns : IsPattern(p)
    /\ Finished(1) /\ Finished(2) /\ SameArguments(1, 2)
    /\ gen[1].results # <<>>
    /\ \E o \in CopyOf(1) \cup CopyOf(2) :
          o \in DOMAIN controller /\ controller[o].skipped # 0

-----------------------------------------------------------------------------
(* Extreme selectors: the patterns (a)'@.dist OP [all_nodes].dist'.        *)

ExtremePattern(op) ==
    ChainPattern(<< <<"@", DIST, op, SET.all_nodes, DIST>>, <<"a">> >>)

InitExtreme ==
    InitWith({ExtremePattern(op) : op \in {">", "<"}},
             Trees(MaxT, {<<"a">>, <<"x">>}, {1, 2}))

NextExtreme == NextWith({1}, {Some(1), None}, Traversals)

SpecExtreme == InitExtreme /\ [][NextExtreme]_vars

\* C7: a search with an extreme selector raises nothing and produces at most
\* one node; when it has finished it has produced one node if some target
\* node matched the structure, and none otherwise.
ExtremeYieldsNoneOrOne ==
    \A g \in Gens :
        /\ gen[g].pc # "error"
        /\ Len(gen[g].results) <= 1
        /\ Finished(g)
              => (gen[g].results # <<>> <=> gen[g].matched_nodes # <<>>)

\* the comparison of the selector of the original pattern
ExtremeOp == name[1][3]

\* the left fold of the claim: best starts as the first candidate and is
\* replaced by the candidate at k when the comparison holds for it and best
RECURSIVE LeftFold(_, _, _, _)
LeftFold(T, candidates, k, best) ==
    IF k > Len(candidates) THEN best
    ELSE LeftFold(T, candidates, k + 1,
             IF \/ ExtremeOp = ">" /\ T.dist[candidates[k]] > T.dist[best]
                \/ ExtremeOp = "<" /\ T.dist[candidates[k]] < T.dist[best]
             THEN candidates[k] ELSE best)

\* the position of the earliest candidate of maximum dist
EarliestMax(T, candidates) ==
    CHOOSE i \in DOMAIN candidates :
        /\ \A k \in DOMAIN candidates :
              T.dist[candidates[k]] <= T.dist[candidates[i]]
        /\ \A k \in 1..(i - 1) :
              T.dist[candidates[k]] < T.dist[candidates[i]]

\* C8: what find_extreme_case returns for a non-empty list of candidates is
\* a candidate, the one that the left fold over the list in traversal order
\* selects; for the comparison '>' it is the earliest candidate of maximum
\* dist.
ExtremeIsLeftFold ==
    \A g \in Gens :
        gen[g].pc \in {"yielded_extreme", "done"}
        => LET candidates == gen[g].matched_nodes
           IN /\ candidates # <<>>
              /\ Len(gen[g].results) = 1
              /\ gen[g].results[1] \in Range(candidates)
              /\ gen[g].results[1]
                    = LeftFold(tree, candidates, 1, candidates[1])
              /\ ExtremeOp = ">"
                    => gen[g].results[1]
                          = candidates[EarliestMax(tree, candidates)]

\* a search with '>' that selected the first of two candidates of the same,
\* maximum, dist
ExtremeIsLeftFoldWitness ==
    \E g \in Gens :
        /\ gen[g].pc = "yielded_extreme"
        /\ ExtremeOp = ">"
        /\ Len(gen[g].matched_nodes) = 2
        /\ tree.dist[gen[g].matched_nodes[1]] = tree.dist[gen[g].matched_nodes[2]]
        /\ gen[g].results = <<gen[g].matched_nodes[1]>>

-----------------------------------------------------------------------------
(* The bounded connector {1}: the pattern whose connector node is '{1}'.   *)

BoundedOnePattern == ChainPattern(<< <<"a">>, <<"{", "1", "}">>, <<"c">> >>)

InitBoundedOne ==
    InitWith({BoundedOnePattern},
             Trees(MaxT, {<<"a">>, <<"c">>, <<"x">>}, {1}))

NextBoundedOne == NextWith({1}, {Some(1), None}, Traversals)

SpecBoundedOne == InitBoundedOne /\ [][NextBoundedOne]_vars

\* node i is an a with a child that has a child c
HasGrandchildC(T, i) ==
    /\ Named(T, i, "a")
    /\ \E c \in 1..T.n : Named(T, c, "c") /\ Separated(T, i, c, 1)

\* C11: with the query ((c){1})a a search raises nothing and reports only
\* nodes named a that have a child with a child c; a finished search has
\* produced exactly what the query ((c)@)a produces for the same target,
\* maxhits and traversal, and with maxhits = None that is every such node.
BoundedOneIsAnyNode ==
    \A g \in Gens :
        /\ gen[g].pc # "error"
        /\ \A i \in Range(gen[g].results) : HasGrandchildC(tree, i)
        /\ Finished(g)
              => gen[g].results
                    = list_find_match(AnyNodePattern, tree, gen[g].maxhits,
                                      gen[g].traversal).results
        /\ Finished(g) /\ gen[g].maxhits = None
              => \A i \in 1..tree.n :
                    HasGrandchildC(tree, i) => i \in Range(gen[g].results)

\* a finished search for every match on a target with an a whose grandchild
\* is a c and another a whose child is a c: only the first is reported
BoundedOneWitness ==
    \E g \in Gens, a, b, c, d \in 1..tree.n :
        /\ Finished(g) /\ gen[g].maxhits = None
        /\ HasGrandchildC(tree, a)
        /\ Named(tree, b, "a") /\ Named(tree, d, "c") /\ tree.parent[d] = b
        /\ a # b
        /\ gen[g].results = <<a>>

-----------------------------------------------------------------------------
(* The bounded connector {2} over a cluster: Example 7 of the repository.  *)

\* a tree given by the parents and the names of its nodes
MakeTree(parent, names) ==
    [n |-> Len(parent), parent |-> parent,
     children |-> ChildrenOf(Len(parent), parent),
     name |-> names, dist |-> [i \in DOMAIN parent |-> 1]]

ClusterNames == << <<"A">>, <<"A", "2">>, <<"A", "3">> >>

\* the pattern ((A,A2,A3){n},(C,D)), n being one digit
ClusterPattern(n) ==
    LET t == MakeTree(<<0, 1, 2, 2, 2, 1, 6, 6>>,
                      << <<>>, <<"{", n, "}">> >> \o ClusterNames
                      \o << <<>>, <<"C">>, <<"D">> >>)
    IN [n |-> t.n, parent |-> t.parent, children |-> t.children,
        name |-> t.name]

\* the target (((((A,A2,A3),B),(C,D)),E),F)
DocumentedTarget ==
    MakeTree(<<0, 1, 2, 3, 4, 5, 5, 5, 4, 3, 10, 10, 2, 1>>,
             << <<>>, <<>>, <<>>, <<>>, <<>> >> \o ClusterNames
             \o << <<"B">>, <<>>, <<"C">>, <<"D">>, <<"E">>, <<"F">> >>)

\* the target whose root has the children (C,D) and a chain of k nodes that
\* ends in the parent of the cluster (A,A2,A3); with sisters, every node of
\* the chain also has a child B
ClusterBelow(k, sisters) ==
    LET s == IF sisters THEN k ELSE 0
    IN MakeTree(
         [i \in 1..(k + s + 8) |->
            IF i <= k + 2 THEN i - 1
            ELSE IF i <= k + 5 THEN k + 2
            ELSE IF i <= k + 5 + s THEN i - (k + 5) + 1
            ELSE IF i = k + s + 6 THEN 1
            ELSE k + s + 6],
         [i \in 1..(k + s + 8) |->
            IF i <= k + 2 THEN <<>>
            ELSE IF i <= k + 5 THEN ClusterNames[i - (k + 2)]
            ELSE IF i <= k + 5 + s THEN <<"B">>
            ELSE IF i = k + s + 6 THEN <<>>
            ELSE IF i = k + s + 7 THEN <<"C">>
            ELSE <<"D">>])

ClusterTargets ==
    {DocumentedTarget}
        \cup {ClusterBelow(k, sisters) : k \in 0..MaxK, sisters \in BOOLEAN}

InitBoundedTwo ==
    InitWith({ClusterPattern("1"), ClusterPattern("2")}, ClusterTargets)

NextBoundedTwo == NextWith({1}, MaxHitsValues, Traversals)

SpecBoundedTwo == InitBoundedTwo /\ [][NextBoundedTwo]_vars

-----------------------------------------------------------------------------
(* Negation: patterns with a node whose label ends in '!'.                 *)

NegatedLeafPattern == ChainPattern(<< <<"a", "!">> >>)

NegatedRootPattern == ChainPattern(<< <<"a", "!">>, <<"c">> >>)

NegatedPatterns ==
    {NegatedLeafPattern, NegatedRootPattern,
     ChainPattern(<< <<"a">>, <<"c", "!">> >>),
     ChainPattern(<< <<"a">>, <<"x", "!">>, <<"c">> >>)}

InitNegation ==
    InitWith(NegatedPatterns, Trees(MaxT, {<<"a">>, <<"c">>, <<"x">>}, {1}))

NextNegation == NextWith({1}, {Some(1), None}, Traversals)

SpecNegation == InitNegation /\ [][NextNegation]_vars

HasChildNamed(T, i, ch) ==
    \E c \in 1..T.n : T.parent[c] = i /\ Named(T, c, ch)

\* C13: the local test of a node whose negate flag is set is true exactly
\* when its predicate is false on the candidate: a search for every match
\* with the query 'a!' reports exactly the target nodes that are not named
\* a, and with the query (c)a! exactly the nodes not named a that have a
\* child c.
NegationInvertsLocalTest ==
    \A g \in Gens :
        gen[g].pc = "done" /\ gen[g].maxhits = None
        => \A i \in 1..tree.n :
              /\ IsPattern(NegatedLeafPattern)
                    => (i \in Range(gen[g].results) <=> ~Named(tree, i, "a"))
              /\ IsPattern(NegatedRootPattern)
                    => (i \in Range(gen[g].results)
                           <=> ~Named(tree, i, "a")
                               /\ HasChildNamed(tree, i, "c"))

-----------------------------------------------------------------------------
(* Predicates whose evaluation fails.                                      *)

\* (('@.children[0].name == "c"'))a: the predicate of the child raises
\* IndexError on a candidate without children
FirstChildPattern ==
    ChainPattern(<< <<"a">>, <<"@", CHILD0, NAME_EQ, "c", QUOTE>> >>)

\* (('@.dist > x'))a: the name x is bound in no scope
UnboundNamePattern == ChainPattern(<< <<"a">>, <<"@", DIST, ">", "x">> >>)

InitFailingPredicate ==
    InitWith({FirstChildPattern, UnboundNamePattern},
             Trees(MaxT, {<<"a">>, <<"c">>, <<"x">>}, {1}))

NextFailingPredicate == NextWith({1}, {Some(1), None}, Traversals)

SpecFailingPredicate == InitFailingPredicate /\ [][NextFailingPredicate]_vars

\* node i is an a with a child whose first child is a c
FirstGrandchildIsC(T, i) ==
    /\ Named(T, i, "a")
    /\ \E b \in 1..T.n :
          /\ T.parent[b] = i
          /\ T.children[b] # <<>>
          /\ Named(T, T.children[b][1], "c")

\* C14: a predicate of a non-root pattern node that cannot be evaluated on a
\* candidate makes that candidate a non-match only: the search raises
\* nothing, and a finished search for every match with the query
\* (('@.children[0].name == "c"'))a has reported every a that has a child
\* whose first child is a c.
FailedPredicateIsNonMatch ==
    \A g \in Gens :
        /\ gen[g].pc # "error"
        /\ (/\ IsPattern(FirstChildPattern)
            /\ Finished(g)
            /\ gen[g].maxhits = None)
           => \A i \in 1..tree.n :
                 FirstGrandchildIsC(tree, i) => i \in Range(gen[g].results)

-----------------------------------------------------------------------------
(* A bounded-count marker whose bound is no number.                        *)

\* ((c){x-2})a
MalformedPattern ==
    ChainPattern(<< <<"a">>, <<"{", "x", "-", "2", "}">>, <<"c">> >>)

\* ((c){1-2})a
BoundedRangePattern ==
    ChainPattern(<< <<"a">>, <<"{", "1", "-", "2", "}">>, <<"c">> >>)

InitMalformed ==
    InitWith({MalformedPattern, BoundedRangePattern},
             Trees(MaxT, {<<"a">>, <<"c">>, <<"x">>}, {1}))

NextMalformed == NextWith({1}, {Some(1), None}, Traversals)

SpecMalformed == InitMalformed /\ [][NextMalformed]_vars

\* C15: a pattern with the marker {x-2} fails when it is built: no search
\* of it is ever created, nothing of it is compiled (no node of it or of a
\* copy of it holds a controller), and no target node is examined.
MalformedFailsWhenBuilt ==
    IsPattern(MalformedPattern)
        => /\ \A g \in Gens : gen[g].pc = "none" /\ gen[g].pos = 0
           /\ controller = <<>>

-----------------------------------------------------------------------------
(* PatternSyntax.contains_leaves and contains_species, called directly.    *)

\* node.iter_leaves(): the leaves of the subtree of node
iter_leaves(T, node) ==
    SelectSeq(preorder(T, node), LAMBDA i : is_leaf(T, i))

\* the species of a target node: PhyloTree takes it from the name
species(T, i) == T.name[i]

\* _FakeCache.get_cached_attr(attr_name, node, leaves_only=True)
get_cached_attr(T, attr_name, node) ==
    LET leaves == iter_leaves(T, node)
    IN [k \in DOMAIN leaves |->
           IF attr_name = "species" THEN species(T, leaves[k])
           ELSE T.name[leaves[k]]]

\* an argument that is one string or a list of strings
OneString(s) == [string |-> TRUE, v |-> s]

StringList(l) == [string |-> FALSE, v |-> l]

\* set([names]) of a string, set(names) of a list
as_set(names) == IF names.string THEN {names.v} ELSE Range(names.v)

\* the number of values that are in the set of names
RECURSIVE count_found(_, _)
count_found(values, names) ==
    IF values = <<>> THEN 0
    ELSE (IF Head(values) \in names THEN 1 ELSE 0)
         + count_found(Tail(values), names)

\* PatternSyntax.contains_leaves(target_node, node_names)
contains_leaves(T, target_node, node_names) ==
    count_found(get_cached_attr(T, "name", target_node), as_set(node_names))
        = Cardinality(as_set(node_names))

\* PatternSyntax.contains_species(target_node, species_names)
contains_species(T, target_node, species_names) ==
    count_found(get_cached_attr(T, "species", target_node),
                as_set(species_names))
        = Cardinality(as_set(species_names))

\* the lists of at most MaxNames names
NameLists(Names) ==
    UNION {[1..k -> Names] : k \in 0..MaxNames}

ContainsLeaves(node, node_names) ==
    /\ call' = [op |-> "contains_leaves", args |-> <<node, node_names>>,
                ret |-> contains_leaves(tree, node, node_names)]
    /\ UNCHANGED <<tree, pat, name, controller, gen>>

ContainsSpecies(node, species_names) ==
    /\ call' = [op |-> "contains_species", args |-> <<node, species_names>>,
                ret |-> contains_species(tree, node, species_names)]
    /\ UNCHANGED <<tree, pat, name, controller, gen>>

LeafNames == {<<"a">>, <<"c">>, <<"x">>}

InitContains ==
    InitWith({ChainPattern(<< <<"a">> >>)}, Trees(MaxT2, LeafNames, {1}))

NextContains ==
    \/ \E node \in 1..tree.n, s \in LeafNames :
          ContainsLeaves(node, OneString(s))
    \/ \E node \in 1..tree.n, l \in NameLists(LeafNames) :
          ContainsLeaves(node, StringList(l))
    \/ \E node \in 1..tree.n, s \in LeafNames :
          ContainsSpecies(node, OneString(s))
    \/ \E node \in 1..tree.n, l \in NameLists(LeafNames) :
          ContainsSpecies(node, StringList(l))

SpecContains == InitContains /\ [][NextContains]_vars

\* every requested name is the name of some leaf under node
AllPresent(T, node, names) ==
    \A nm \in as_set(names) :
        \E k \in DOMAIN iter_leaves(T, node) :
            T.name[iter_leaves(T, node)[k]] = nm

\* C16: contains_leaves and contains_species return true exactly when every
\* requested name is the name (the species) of at least one leaf under the
\* node, also when several leaves share a name.
ContainsIsAllPresent ==
    call.op \in {"contains_leaves", "contains_species"}
        => (call.ret <=> AllPresent(tree, call.args[1], call.args[2]))

-----------------------------------------------------------------------------
(* TreePattern.parse_metacharacters, called on a pattern node.             *)

\* pattern_node.parse_metacharacters(): the name of the node loses what the
\* loop takes off and the list of metacharacters is returned
ParseMetacharacters(node) ==
    /\ name' = [name EXCEPT ![node] = parse_metacharacters(name[node]).name]
    /\ call' = [op |-> "parse_metacharacters", args |-> <<node, name[node]>>,
                ret |-> parse_metacharacters(name[node]).metacharacters]
    /\ UNCHANGED <<tree, pat, controller, gen>>

\* the metacharacters a label can end with: the one-character ones and a
\* bounded-count marker
RunTokens ==
    {<<SYMBOL.is_leaf>>, <<SYMBOL.is_root>>, <<SYMBOL.one_or_more>>,
     <<SYMBOL.zero_or_one>>, <<SYMBOL.zero_or_more>>, <<SYMBOL.not>>,
     <<"{", "1", "-", "2", "}">>}

IsMarker(token) == Head(token) = SYMBOL.defined_number_set_start

\* the trailing runs of at most MaxRun metacharacters with at most one
\* bounded-count marker
Runs ==
    {r \in UNION {[1..k -> RunTokens] : k \in 0..MaxRun} :
        Cardinality({i \in DOMAIN r : IsMarker(r[i])}) <= 1}

\* a name, or no name, followed by a run
Labels == {text \o Concat(r) : text \in {<<>>, <<"a">>}, r \in Runs}

InitLabels ==
    InitWith({ChainPattern(<<label>>) : label \in Labels},
             Trees(1, {<<"a">>}, {1}))

NextLabels == \E node \in 1..pat.n : ParseMetacharacters(node)

SpecLabels == InitLabels /\ [][NextLabels]_vars

\* the maximal trailing run of a label, scanned from its end: the tokens of
\* the run, right to left, and the text in front of it
RECURSIVE TrailingRun(_, _, _)
TrailingRun(label, tokens, marker_seen) ==
    IF label # <<>>
       /\ label[Len(label)] \in SYMBOL_values
            \ {SYMBOL.defined_number_set_start, SYMBOL.defined_number_set_end,
               SYMBOL.node_reference}
    THEN TrailingRun(SubSeq(label, 1, Len(label) - 1),
                     tokens \o << <<label[Len(label)]>> >>, marker_seen)
    ELSE IF label # <<>>
            /\ label[Len(label)] = SYMBOL.defined_number_set_end
            /\ ~marker_seen
            /\ \E i \in DOMAIN label :
                  /\ label[i] = SYMBOL.defined_number_set_start
                  /\ \A j \in (i + 1)..(Len(label) - 1) :
                        label[j] \in Digits \cup {"-"}
    THEN LET start == CHOOSE i \in DOMAIN label :
                          /\ label[i] = SYMBOL.defined_number_set_start
                          /\ \A j \in (i + 1)..(Len(label) - 1) :
                                label[j] \in Digits \cup {"-"}
         IN TrailingRun(SubSeq(label, 1, start - 1),
                        tokens \o <<SubSeq(label, start, Len(label))>>, TRUE)
    ELSE [name |-> IF label = <<>> THEN <<SYMBOL.node_reference>> ELSE label,
          metacharacters |-> tokens]

\* C17: parse_metacharacters returns every metacharacter of the maximal
\* trailing run of the label, the bounded-count marker included, whatever
\* their order, and leaves as the name of the node the label without the run,
\* or the placeholder when nothing is left.
ParseStripsTrailingRun ==
    call.op = "parse_metacharacters"
        => LET expected == TrailingRun(call.args[2], <<>>, FALSE)
           IN /\ name[call.args[1]] = expected.name
              /\ Len(call.ret) = Len(expected.metacharacters)
              /\ Range(call.ret) = Range(expected.metacharacters)

-----------------------------------------------------------------------------
(* No work past the cap, in SpecOrdinary.                                  *)

\* the generator g was given an integer maxhits of at least one
Capped(g) == gen[g].maxhits # None /\ gen[g].maxhits[1] >= 1

\* the last node that the generator g produced
LastResult(g) == gen[g].results[Len(gen[g].results)]

\* C18: in a search with an integer maxhits of at least one, the step that
\* follows the maxhits-th result attempts no match (the position in the
\* traversal and the counters of the copy stay as they are) and ends the
\* sequence; and while the caller holds a result, the last node at which a
\* match was attempted is that result (no node was attempted before the
\* first request).
NoWorkPastCap ==
    /\ [][\A g \in Gens :
             (/\ Capped(g)
              /\ gen[g].pc = "yielded"
              /\ gen[g].num_hits >= gen[g].maxhits[1]
              /\ gen'[g] # gen[g])
                 => /\ gen'[g].pc = "done"
                    /\ gen'[g].pos = gen[g].pos
                    /\ gen'[g].results = gen[g].results
                    /\ controller' = controller]_vars
    /\ [](\A g \in Gens :
             Capped(g) =>
                /\ gen[g].pc \in {"none", "created"} => gen[g].pos = 0
                /\ gen[g].pc = "yielded" =>
                      /\ gen[g].pos \in 1..tree.n
                      /\ traverse(tree, 1, gen[g].traversal)[gen[g].pos]
                            = LastResult(g))

\* a search that the cap ended before the last node of the traversal
NoWorkPastCapWitness ==
    \E g \in Gens :
        /\ Capped(g)
        /\ gen[g].pc = "done"
        /\ Len(gen[g].results) = gen[g].maxhits[1]
        /\ gen[g].pos < tree.n

-----------------------------------------------------------------------------
(* The skipped counters across failed match attempts, in SpecOrdinary.     *)

\* the generator g takes a step in which every call of match returns false:
\* the step yields nothing and ends the search without an exception
OnlyFailedAttempts(g) ==
    /\ gen'[g] # gen[g]
    /\ gen[g].pc \in {"created", "yielded"}
    /\ gen'[g].pc = "done"
    /\ gen'[g].results = gen[g].results
    /\ ~gen'[g].single_match_pattern

\* the skipped counter of the object o before a step: set_controller starts
\* it at 0
skipped_before(o) ==
    IF o \in DOMAIN controller THEN controller[o].skipped ELSE 0

\* C19: a call of match that returns false leaves every skipped counter of
\* the copy at the value it had before the call; so does a step of a search
\* in which every call of match returns false, at the start of the search as
\* well as after a result.
FailedMatchKeepsSkipped ==
    [][\A g \in Gens :
          OnlyFailedAttempts(g)
              => \A i \in 1..pat.n :
                    controller'[gen'[g].base + i].skipped
                        = skipped_before(gen'[g].base + i)]_vars

-----------------------------------------------------------------------------
(* The range of the skipped counters: leaf query nodes that allow indirect *)
(* connection and carry a name, among them the bounds {0} and zero-or-one. *)

\* the pattern (c<metacharacters>)a
LeafConnectorPattern(metacharacters) ==
    ChainPattern(<< <<"a">>, <<"c">> \o metacharacters >>)

LeafConnectorPatterns ==
    {LeafConnectorPattern(<<"+">>), LeafConnectorPattern(<<"*">>),
     LeafConnectorPattern(<<"?">>), LeafConnectorPattern(<<"{", "0", "}">>),
     ChainPattern(<< <<"a">>, <<"c", "+">>, <<"a">> >>)}

InitSkipped == InitWith(LeafConnectorPatterns, TargetTrees)

NextSkipped == NextWith({1}, MaxHitsValues, Traversals)

SpecSkipped == InitSkipped /\ [][NextSkipped]_vars

\* C20: while a search is under way (the caller holds a result and may ask
\* for the next one), the skipped counter of every node of the copy is at
\* least 0 and, when the high bound of the node is at least 0, at most that
\* bound.
SkippedInRange ==
    \A g \in Gens :
        gen[g].pc = "yielded" =>
            \A i \in 1..pat.n :
                LET c == controller[gen[g].base + i]
                IN /\ c.skipped >= 0
                   /\ c.high >= 0 => c.skipped <= c.high

-----------------------------------------------------------------------------
(* Children of a connector: the pattern ((x,c)+)a, whose leaves are plain  *)
(* names.                                                                  *)

\* the pattern ((x,c)<connector>)a
ConnectorOverPair(connector) ==
    LET t == MakeTree(<<0, 1, 2, 2>>,
                      << <<"a">>, connector, <<"x">>, <<"c">> >>)
    IN [n |-> t.n, parent |-> t.parent, children |-> t.children,
        name |-> t.name]

PairPatterns ==
    {ConnectorOverPair(<<"+">>), ConnectorOverPair(<<"{", "1", "}">>)}

\* the names of the leaves of the pair patterns
PairLeaves == {"x", "c"}

PairTargets == Trees(MaxT5, {<<"a">>, <<"x">>, <<"c">>}, {1})

InitPair == InitWith(PairPatterns, PairTargets)

NextPair == NextWith({1}, {None}, {"preorder"})

SpecPair == InitPair /\ [][NextPair]_vars

\* C21: every node that a search of ((x,c)+)a or ((x,c){1})a reports has,
\* for each leaf of the pattern, a node of that name inside its subtree: no
\* pattern leaf that failed on its target child is passed over.
ReportedHasEveryLeaf ==
    \A g \in Gens :
        \A k \in DOMAIN gen[g].results :
            \A ch \in PairLeaves :
                \E i \in 1..tree.n :
                    /\ Named(tree, i, ch)
                    /\ IsAncestor(tree, gen[g].results[k], i)

====
